---- MODULE Spec2Model ----
(***************************************************************************)
(* licenseheaders: detection, formatting and rewriting of license header   *)
(* comment blocks (src/licenseheaders/licenseheaders.py).                  *)
(*                                                                         *)
(* A text line is a sequence of one-character strings, terminated by the   *)
(* newline character as io.readlines() returns it.  Python str objects     *)
(* of the settings table are records [str |-> chars], compiled regular     *)
(* expressions are records [re |-> source text], the Python value None is  *)
(* the record NoneType for objects and the index None for line indices.    *)
(* Line indices are 0-based as in the source; lines[i] of the source is    *)
(* lines[i+1] here.                                                        *)
(***************************************************************************)
EXTENDS Integers, Sequences, FiniteSets, TLC

\* ------------------------------------------------------------------------
\* Python values
\* ------------------------------------------------------------------------

\* None as the value of headStart, headEnd, yearsLine
None == -1

\* None as the value of a settings entry
NoneType == [none |-> TRUE]

re_compile(src) == [re |-> src]

str(chars) == [str |-> chars]

IsRe(p) == "re" \in DOMAIN p

IsStr(p) == "str" \in DOMAIN p

\* truth value of a settings entry: None and "" are false
Truthy(p) == IF IsStr(p) THEN p.str # <<>> ELSE p # NoneType

\* lines[a:b] and lines[a:] of a Python list
Slice(lines, a, b) == SubSeq(lines, a + 1, b)

SliceFrom(lines, a) == SubSeq(lines, a + 1, Len(lines))

\* ------------------------------------------------------------------------
\* Regular expression primitives
\* ------------------------------------------------------------------------

\* \s of the re module on text
IsSpace(c) == c \in {" ", "\t", "\n", "\r", "\f"}

IsDigit(c) == c \in {"0", "1", "2", "3", "4", "5", "6", "7", "8", "9"}

UpperCase == <<"A", "B", "C", "D", "E", "F", "G", "H", "I", "J", "K", "L", "M",
               "N", "O", "P", "Q", "R", "S", "T", "U", "V", "W", "X", "Y", "Z">>

LowerCase == <<"a", "b", "c", "d", "e", "f", "g", "h", "i", "j", "k", "l", "m",
               "n", "o", "p", "q", "r", "s", "t", "u", "v", "w", "x", "y", "z">>

\* case folding of re.IGNORECASE
LowerOf ==
    [c \in {UpperCase[k] : k \in 1..26} |->
        LowerCase[CHOOSE k \in 1..26 : UpperCase[k] = c]]

Lower(c) == IF c \in DOMAIN LowerOf THEN LowerOf[c] ELSE c

\* the literal lit occurs in s at position p (1-based)
HasAt(s, p, lit) ==
    /\ p >= 1
    /\ p + Len(lit) - 1 <= Len(s)
    /\ \A k \in 1..Len(lit) : s[p + k - 1] = lit[k]

\* the same, ignoring case (lit is given in lower case)
HasAtCI(s, p, lit) ==
    /\ p >= 1
    /\ p + Len(lit) - 1 <= Len(s)
    /\ \A k \in 1..Len(lit) : Lower(s[p + k - 1]) = lit[k]

\* position after the greedy match of \s* at position p
SkipSpace(s, p) ==
    CHOOSE q \in p..(Len(s) + 1) :
        /\ \A k \in p..(q - 1) : IsSpace(s[k])
        /\ q = Len(s) + 1 \/ ~IsSpace(s[q])

\* ^lit
AtStart(lit, s) == HasAt(s, 1, lit)

\* ^\s*lit
AtStartAfterSpace(lit, s) == HasAt(s, SkipSpace(s, 1), lit)

\* \s*lit searched anywhere in the line (findall is a search, not a match)
Anywhere(lit, s) == \E p \in 1..Len(s) : HasAt(s, p, lit)

\* lit\s*$
AtEndBeforeSpace(lit, s) ==
    \E p \in 1..Len(s) :
        /\ HasAt(s, p, lit)
        /\ \A k \in (p + Len(lit))..Len(s) : IsSpace(s[k])

\* ^\s*<\?xml.*\?>
XmlDeclaration(s) ==
    LET q == SkipSpace(s, 1) IN
    /\ HasAt(s, q, <<"<", "?", "x", "m", "l">>)
    /\ \E p \in (q + 5)..Len(s) :
           /\ HasAt(s, p, <<"?", ">">>)
           /\ \A k \in (q + 5)..(p - 1) : s[k] # "\n"

\* ^#.*coding.+
CodingLine(s) ==
    /\ HasAt(s, 1, <<"#">>)
    /\ \E p \in 2..Len(s) :
           /\ HasAt(s, p, <<"c", "o", "d", "i", "n", "g">>)
           /\ \A k \in 2..(p - 1) : s[k] # "\n"
           /\ p + 6 <= Len(s)
           /\ s[p + 6] # "\n"

\* pattern.findall(line) is a non-empty list
findall(pattern, line) ==
    CASE pattern.re = "^\\s*/\\*"        -> AtStartAfterSpace(<<"/", "*">>, line)
      [] pattern.re = "\\*/\\s*$"        -> AtEndBeforeSpace(<<"*", "/">>, line)
      [] pattern.re = "\\s*//"           -> Anywhere(<<"/", "/">>, line)
      [] pattern.re = "^#!"              -> AtStart(<<"#", "!">>, line)
      [] pattern.re = "\\s*#"            -> Anywhere(<<"#">>, line)
      [] pattern.re = "^\\s*<\\?xml.*\\?>" -> XmlDeclaration(line)
      [] pattern.re = "^\\s*<!--"        -> AtStartAfterSpace(<<"<", "!", "-", "-">>, line)
      [] pattern.re = "-->\\s*$"         -> AtEndBeforeSpace(<<"-", "-", ">">>, line)
      [] pattern.re = "\\s*--"           -> Anywhere(<<"-", "-">>, line)
      [] pattern.re = "^=begin"          -> AtStart(<<"=", "b", "e", "g", "i", "n">>, line)
      [] pattern.re = "^=end"            -> AtStart(<<"=", "e", "n", "d">>, line)
      [] pattern.re = "^\\s*\\'"         -> AtStartAfterSpace(<<"'">>, line)
      [] pattern.re = "^#.*coding.+"     -> CodingLine(line)
      [] pattern.re = "^\\s*#"           -> AtStartAfterSpace(<<"#">>, line)

\* end (exclusive) of the match of yearsPattern that starts at p, 0 if none:
\*   Copyright\s*(?:\(\s*[C|c]\s*\)\s*)?([0-9]{4}(?:-[0-9][0-9]?[0-9]?[0-9]?))
\* The range part "-N" carries no "?": a single year does not match.
YearsMatchEnd(s, p) ==
    IF ~HasAtCI(s, p, <<"c", "o", "p", "y", "r", "i", "g", "h", "t">>) THEN 0
    ELSE
      LET q1 == SkipSpace(s, p + 9)
          a  == SkipSpace(s, q1 + 1)
          b  == SkipSpace(s, a + 1)
          group == /\ HasAt(s, q1, <<"(">>)
                   /\ a <= Len(s)
                   /\ Lower(s[a]) \in {"c", "|"}
                   /\ HasAt(s, b, <<")">>)
          q  == IF group THEN SkipSpace(s, b + 1) ELSE q1
          digit(k) == k <= Len(s) /\ IsDigit(s[k])
      IN  IF /\ digit(q) /\ digit(q + 1) /\ digit(q + 2) /\ digit(q + 3)
             /\ HasAt(s, q + 4, <<"-">>)
             /\ digit(q + 5)
          THEN IF ~digit(q + 6) THEN q + 6
               ELSE IF ~digit(q + 7) THEN q + 7
               ELSE IF ~digit(q + 8) THEN q + 8
               ELSE q + 9
          ELSE 0

\* yearsPattern.findall(line) is a non-empty list
yearsPattern(line) == \E p \in 1..Len(line) : YearsMatchEnd(line, p) # 0

\* licensePattern.findall(line) is a non-empty list
licensePattern(line) ==
    \E p \in 1..Len(line) : HasAtCI(line, p, <<"l", "i", "c", "e", "n", "s", "e">>)

\* emptyPattern.findall(line) is a non-empty list:  ^\s*$
emptyPattern(line) == \A k \in 1..Len(line) : IsSpace(line[k])

\* ------------------------------------------------------------------------
\* typeSettings: for each processing type, how to process files of that type
\* ------------------------------------------------------------------------

settings_java ==
    [ extensions |-> <<<<".", "j", "a", "v", "a">>,
                       <<".", "s", "c", "a", "l", "a">>,
                       <<".", "g", "r", "o", "o", "v", "y">>,
                       <<".", "j", "a", "p", "e">>>>,
      keepFirst |-> NoneType,
      blockCommentStartPattern |-> re_compile("^\\s*/\\*"),
      blockCommentEndPattern |-> re_compile("\\*/\\s*$"),
      lineCommentStartPattern |-> re_compile("\\s*//"),
      lineCommentEndPattern |-> NoneType,
      headerStartLine |-> str(<<"/", "*", "\n">>),
      headerEndLine |-> str(<<" ", "*", "/", "\n">>),
      headerLinePrefix |-> str(<<" ", "*", " ">>),
      headerLineSuffix |-> NoneType ]

settings_javascript ==
    [ extensions |-> <<<<".", "j", "s">>,
                       <<".", "t", "s">>,
                       <<".", "j", "s", "x">>,
                       <<".", "j", "s", "x">>>>,
      keepFirst |-> NoneType,
      blockCommentStartPattern |-> re_compile("^\\s*/\\*"),
      blockCommentEndPattern |-> re_compile("\\*/\\s*$"),
      lineCommentStartPattern |-> re_compile("\\s*//"),
      lineCommentEndPattern |-> NoneType,
      headerStartLine |-> str(<<"/", "*", "\n">>),
      headerEndLine |-> str(<<" ", "*", "/", "\n">>),
      headerLinePrefix |-> str(<<" ", "*", " ">>),
      headerLineSuffix |-> NoneType ]

settings_script ==
    [ extensions |-> <<<<".", "s", "h">>,
                       <<".", "c", "s", "h">>,
                       <<".", "p", "y">>,
                       <<".", "p", "l">>>>,
      keepFirst |-> re_compile("^#!"),
      blockCommentStartPattern |-> NoneType,
      blockCommentEndPattern |-> NoneType,
      lineCommentStartPattern |-> re_compile("\\s*#"),
      lineCommentEndPattern |-> NoneType,
      headerStartLine |-> str(<<"#", "#", "\n">>),
      headerEndLine |-> str(<<"#", "#", "\n">>),
      headerLinePrefix |-> str(<<"#", "#", " ">>),
      headerLineSuffix |-> NoneType ]

settings_xml ==
    [ extensions |-> <<<<".", "x", "m", "l">>>>,
      keepFirst |-> re_compile("^\\s*<\\?xml.*\\?>"),
      blockCommentStartPattern |-> re_compile("^\\s*<!--"),
      blockCommentEndPattern |-> re_compile("-->\\s*$"),
      lineCommentStartPattern |-> NoneType,
      lineCommentEndPattern |-> NoneType,
      headerStartLine |-> str(<<"<", "!", "-", "-", "\n">>),
      headerEndLine |-> str(<<" ", " ", "-", "-", ">", "\n">>),
      headerLinePrefix |-> str(<<"-", "-", " ">>),
      headerLineSuffix |-> NoneType ]

settings_sql ==
    [ extensions |-> <<<<".", "s", "q", "l">>>>,
      keepFirst |-> NoneType,
      blockCommentStartPattern |-> NoneType,
      blockCommentEndPattern |-> NoneType,
      lineCommentStartPattern |-> re_compile("\\s*--"),
      lineCommentEndPattern |-> NoneType,
      headerStartLine |-> str(<<"-", "-", "\n">>),
      headerEndLine |-> str(<<"-", "-", "\n">>),
      headerLinePrefix |-> str(<<"-", "-", " ">>),
      headerLineSuffix |-> NoneType ]

settings_c ==
    [ extensions |-> <<<<".", "c">>,
                       <<".", "c", "c">>,
                       <<".", "c", "p", "p">>,
                       <<".", "c", "+", "+">>,
                       <<".", "h">>,
                       <<".", "h", "p", "p">>>>,
      keepFirst |-> NoneType,
      blockCommentStartPattern |-> re_compile("^\\s*/\\*"),
      blockCommentEndPattern |-> re_compile("\\*/\\s*$"),
      lineCommentStartPattern |-> re_compile("\\s*//"),
      lineCommentEndPattern |-> NoneType,
      headerStartLine |-> str(<<"/", "*", "\n">>),
      headerEndLine |-> str(<<" ", "*", "/", "\n">>),
      headerLinePrefix |-> str(<<" ", "*", " ">>),
      headerLineSuffix |-> NoneType ]

settings_ruby ==
    [ extensions |-> <<<<".", "r", "b">>>>,
      keepFirst |-> str(<<"^", "#", "!">>),
      blockCommentStartPattern |-> re_compile("^=begin"),
      blockCommentEndPattern |-> re_compile("^=end"),
      lineCommentStartPattern |-> re_compile("\\s*#"),
      lineCommentEndPattern |-> NoneType,
      headerStartLine |-> str(<<"#", "#", "\n">>),
      headerEndLine |-> str(<<"#", "#", "\n">>),
      headerLinePrefix |-> str(<<"#", "#", " ">>),
      headerLineSuffix |-> NoneType ]

settings_csharp ==
    [ extensions |-> <<<<".", "c", "s">>>>,
      keepFirst |-> NoneType,
      blockCommentStartPattern |-> NoneType,
      blockCommentEndPattern |-> NoneType,
      lineCommentStartPattern |-> re_compile("\\s*//"),
      lineCommentEndPattern |-> NoneType,
      headerStartLine |-> NoneType,
      headerEndLine |-> NoneType,
      headerLinePrefix |-> str(<<"/", "/", " ">>),
      headerLineSuffix |-> NoneType ]

settings_vb ==
    [ extensions |-> <<<<".", "v", "b">>>>,
      keepFirst |-> NoneType,
      blockCommentStartPattern |-> NoneType,
      blockCommentEndPattern |-> NoneType,
      lineCommentStartPattern |-> re_compile("^\\s*\\'"),
      lineCommentEndPattern |-> NoneType,
      headerStartLine |-> NoneType,
      headerEndLine |-> NoneType,
      headerLinePrefix |-> str(<<"'", " ">>),
      headerLineSuffix |-> NoneType ]

settings_erlang ==
    [ extensions |-> <<<<".", "e", "r", "l">>,
                       <<".", "s", "r", "c">>,
                       <<".", "c", "o", "n", "f", "i", "g">>,
                       <<".", "s", "c", "h", "e", "m", "a">>>>,
      keepFirst |-> NoneType,
      blockCommentStartPattern |-> NoneType,
      blockCommentEndPattern |-> NoneType,
      lineCommentStartPattern |-> NoneType,
      lineCommentEndPattern |-> NoneType,
      headerStartLine |-> str(<<"%", "%", " ", "-", "*", "-", " ", "e", "r", "l", "a", "n", "g", " ", "-", "*", "-", "\n", "%", "%", " ", "%", "C", "o", "p", "y", "r", "i", "g", "h", "t", "B", "e", "g", "i", "n", "%", "\n", "%", "%", "\n">>),
      headerEndLine |-> str(<<"%", "%", "\n", "%", "%", " ", "%", "C", "o", "p", "y", "r", "i", "g", "h", "t", "E", "n", "d", "%", "\n", "\n">>),
      headerLinePrefix |-> str(<<"%", "%", " ">>),
      headerLineSuffix |-> NoneType ]

settings_python ==
    [ extensions |-> <<<<".", "p", "y">>>>,
      keepFirst |-> re_compile("^#!"),
      keepMore |-> re_compile("^#.*coding.+"),
      blockCommentStartPattern |-> NoneType,
      blockCommentEndPattern |-> NoneType,
      lineCommentStartPattern |-> re_compile("^\\s*#"),
      lineCommentEndPattern |-> NoneType,
      headerStartLine |-> str(<<"#", "\n">>),
      headerEndLine |-> str(<<"#", "\n">>),
      headerLinePrefix |-> str(<<"#", " ">>),
      headerLineSuffix |-> NoneType ]

\* the processing types in the order the table lists them
Types ==
    <<"java", "javascript", "script", "xml", "sql", "c", "ruby", "csharp", "vb", "erlang", "python">>

typeSettings ==
    [ t \in {Types[k] : k \in 1..Len(Types)} |->
        CASE t = "java" -> settings_java
          [] t = "javascript" -> settings_javascript
          [] t = "script" -> settings_script
          [] t = "xml" -> settings_xml
          [] t = "sql" -> settings_sql
          [] t = "c" -> settings_c
          [] t = "ruby" -> settings_ruby
          [] t = "csharp" -> settings_csharp
          [] t = "vb" -> settings_vb
          [] t = "erlang" -> settings_erlang
          [] t = "python" -> settings_python ]

\* settings.get(key)
Get(settings, key) == IF key \in DOMAIN settings THEN settings[key] ELSE NoneType

\* ext2type.get(extension) is None
NoType == "None"

\* ext2type with a slip: an extension keeps the first type that lists it
ext2typeFirstWins(ext) ==
    LET owners == {k \in 1..Len(Types) :
                      \E e \in 1..Len(typeSettings[Types[k]].extensions) :
                          typeSettings[Types[k]].extensions[e] = ext}
    IN  IF owners = {} THEN NoType
        ELSE Types[CHOOSE k \in owners : \A m \in owners : k <= m]

\* ext2type as main() fills it: a later type overwrites an earlier one
ext2type(ext) ==
    LET owners == {k \in 1..Len(Types) :
                      \E e \in 1..Len(typeSettings[Types[k]].extensions) :
                          typeSettings[Types[k]].extensions[e] = ext}
    IN  IF owners = {} THEN NoType
        ELSE Types[CHOOSE k \in owners : \A m \in owners : m <= k]

RECURSIVE PatternsFrom(_)
\* patterns as main() fills it: "*"+ext for every extension of every type,
\* in table order and with repetitions
PatternsFrom(k) ==
    IF k > Len(Types) THEN <<>>
    ELSE [e \in 1..Len(typeSettings[Types[k]].extensions) |->
             <<"*">> \o typeSettings[Types[k]].extensions[e]]
         \o PatternsFrom(k + 1)

patterns == PatternsFrom(1)

\* ------------------------------------------------------------------------
\* File contents
\* ------------------------------------------------------------------------

RECURSIVE Concat(_)
\* the characters fw.writelines(strings) puts into the file
Concat(strings) ==
    IF strings = <<>> THEN <<>> ELSE Head(strings) \o Concat(Tail(strings))

RECURSIVE readlinesFrom(_, _)
\* the lines of chars from position from on
readlinesFrom(chars, from) ==
    IF from > Len(chars) THEN <<>>
    ELSE IF \E k \in from..Len(chars) : chars[k] = "\n"
         THEN LET end == CHOOSE k \in from..Len(chars) :
                             /\ chars[k] = "\n"
                             /\ \A j \in from..(k - 1) : chars[j] # "\n"
              IN  <<SubSeq(chars, from, end)>> \o readlinesFrom(chars, end + 1)
         ELSE <<SubSeq(chars, from, Len(chars))>>

\* f.readlines(): the file is cut after every newline
readlines(chars) == readlinesFrom(chars, 1)

\* ------------------------------------------------------------------------
\* for_type: format the template lines for the given type
\* ------------------------------------------------------------------------

for_type_line(l, settings) ==
    LET headerLinePrefix == settings.headerLinePrefix
        headerLineSuffix == settings.headerLineSuffix
        tmp1 == IF headerLinePrefix # NoneType THEN headerLinePrefix.str \o l ELSE l
    IN  IF headerLineSuffix # NoneType THEN tmp1 \o headerLineSuffix.str ELSE tmp1

for_type(templatelines, type) ==
    LET settings == typeSettings[type]
        headerStartLine == settings.headerStartLine
        headerEndLine == settings.headerEndLine
    IN  (IF headerStartLine # NoneType THEN <<headerStartLine.str>> ELSE <<>>)
        \o [k \in 1..Len(templatelines) |-> for_type_line(templatelines[k], settings)]
        \o (IF headerEndLine # NoneType THEN <<headerEndLine.str>> ELSE <<>>)

\* ------------------------------------------------------------------------
\* read_file: the indices of the header of a file
\* ------------------------------------------------------------------------

\* the dictionary read_file returns (the settings entry is typeSettings[type])
FileDict(type, lines, skip, headStart, headEnd, yearsLine, haveLicense) ==
    [ type |-> type, lines |-> lines, skip |-> skip, headStart |-> headStart,
      headEnd |-> headEnd, yearsLine |-> yearsLine, haveLicense |-> haveLicense ]

\* keepFirst.findall(line) where keepFirst is a str: AttributeError
RaisesAttributeError(p) == Truthy(p) /\ ~IsRe(p)

RECURSIVE FindStart(_, _, _, _)
\* the first loop: skip over shebang or empty lines up to the start of the
\* header.  leave is "break", "return" (no header in this file), "end" (the
\* lines ran out) or "raise".
FindStart(lines, settings, i, skip) ==
    IF i = Len(lines) THEN [leave |-> "end", i |-> i, skip |-> skip]
    ELSE
      LET line == lines[i + 1]
          keepFirst == Get(settings, "keepFirst")
          keepMore == Get(settings, "keepMore")
          blockCommentStartPattern == Get(settings, "blockCommentStartPattern")
          lineCommentStartPattern == Get(settings, "lineCommentStartPattern")
      IN  IF i = 0 /\ RaisesAttributeError(keepFirst)
            THEN [leave |-> "raise", i |-> i, skip |-> skip]
          ELSE IF i = 0 /\ Truthy(keepFirst) /\ findall(keepFirst, line)
            THEN FindStart(lines, settings, i + 1, skip + 1)
          ELSE IF i > 0 /\ Truthy(keepMore) /\ findall(keepMore, line)
            THEN FindStart(lines, settings, i + 1, skip + 1)
          ELSE IF emptyPattern(line)
            THEN FindStart(lines, settings, i + 1, skip)
          ELSE IF Truthy(blockCommentStartPattern) /\ findall(blockCommentStartPattern, line)
            THEN [leave |-> "break", i |-> i, skip |-> skip]
          ELSE IF Truthy(lineCommentStartPattern) /\ findall(lineCommentStartPattern, line)
            THEN [leave |-> "break", i |-> i, skip |-> skip]
          ELSE IF /\ ~Truthy(blockCommentStartPattern)
                  /\ Truthy(lineCommentStartPattern)
                  /\ findall(lineCommentStartPattern, line)
            THEN [leave |-> "break", i |-> i, skip |-> skip]
          ELSE [leave |-> "return", i |-> i, skip |-> skip]

RECURSIVE BlockScanToLastLine(_, _, _, _, _, _, _)
\* BlockScan with a slip: a block that is not closed ends at the last line
BlockScanToLastLine(type, lines, skip, headStart, j, yearsLine, haveLicense) ==
    LET blockCommentEndPattern == Get(typeSettings[type], "blockCommentEndPattern") IN
    IF j >= Len(lines)
      THEN FileDict(type, lines, skip, headStart, Len(lines) - 1, yearsLine, haveLicense)
    ELSE IF licensePattern(lines[j + 1])
      THEN BlockScanToLastLine(type, lines, skip, headStart, j + 1, yearsLine, TRUE)
    ELSE IF findall(blockCommentEndPattern, lines[j + 1])
      THEN FileDict(type, lines, skip, headStart, j, yearsLine, haveLicense)
    ELSE IF yearsPattern(lines[j + 1])
      THEN BlockScanToLastLine(type, lines, skip, headStart, j + 1, j, TRUE)
    ELSE BlockScanToLastLine(type, lines, skip, headStart, j + 1, yearsLine, haveLicense)

RECURSIVE BlockScan(_, _, _, _, _, _, _)
\* the loop over a block comment, for j in range(i, len(lines))
BlockScan(type, lines, skip, headStart, j, yearsLine, haveLicense) ==
    LET blockCommentEndPattern == Get(typeSettings[type], "blockCommentEndPattern") IN
    IF j >= Len(lines)
      THEN FileDict(type, lines, skip, None, None, None, haveLicense)
    ELSE IF licensePattern(lines[j + 1])
      THEN BlockScan(type, lines, skip, headStart, j + 1, yearsLine, TRUE)
    ELSE IF findall(blockCommentEndPattern, lines[j + 1])
      THEN FileDict(type, lines, skip, headStart, j, yearsLine, haveLicense)
    ELSE IF yearsPattern(lines[j + 1])
      THEN BlockScan(type, lines, skip, headStart, j + 1, j, TRUE)
    ELSE BlockScan(type, lines, skip, headStart, j + 1, yearsLine, haveLicense)

RECURSIVE LineScanPastLastLine(_, _, _, _, _, _, _)
\* LineScan with a slip: a header that runs to the end of the file ends at
\* len(lines)
LineScanPastLastLine(type, lines, skip, i, j, yearsLine, haveLicense) ==
    LET lineCommentStartPattern == Get(typeSettings[type], "lineCommentStartPattern") IN
    IF j >= Len(lines) - 1
      THEN FileDict(type, lines, skip, i, Len(lines), yearsLine, haveLicense)
    ELSE IF findall(lineCommentStartPattern, lines[j + 1]) /\ licensePattern(lines[j + 1])
      THEN LineScanPastLastLine(type, lines, skip, i, j + 1, yearsLine, TRUE)
    ELSE IF ~findall(lineCommentStartPattern, lines[j + 1])
      THEN FileDict(type, lines, skip, i, j - 1, yearsLine, haveLicense)
    ELSE IF yearsPattern(lines[j + 1])
      THEN LineScanPastLastLine(type, lines, skip, i, j + 1, j, TRUE)
    ELSE LineScanPastLastLine(type, lines, skip, i, j + 1, yearsLine, haveLicense)

RECURSIVE LineScan(_, _, _, _, _, _, _)
\* the loop over line comments, for j in range(i, len(lines)-1)
LineScan(type, lines, skip, i, j, yearsLine, haveLicense) ==
    LET lineCommentStartPattern == Get(typeSettings[type], "lineCommentStartPattern") IN
    IF j >= Len(lines) - 1
      THEN FileDict(type, lines, skip, i, Len(lines) - 1, yearsLine, haveLicense)
    ELSE IF findall(lineCommentStartPattern, lines[j + 1]) /\ licensePattern(lines[j + 1])
      THEN LineScan(type, lines, skip, i, j + 1, yearsLine, TRUE)
    ELSE IF ~findall(lineCommentStartPattern, lines[j + 1])
      THEN FileDict(type, lines, skip, i, j - 1, yearsLine, haveLicense)
    ELSE IF yearsPattern(lines[j + 1])
      THEN LineScan(type, lines, skip, i, j + 1, j, TRUE)
    ELSE LineScan(type, lines, skip, i, j + 1, yearsLine, haveLicense)

\* read_file raises instead of returning
read_file_raises(type, lines) ==
    FindStart(lines, typeSettings[type], 0, 0).leave = "raise"

\* the dictionary read_file returns for the lines of a file of a supported type
read_file(type, lines) ==
    LET settings == typeSettings[type]
        start == FindStart(lines, settings, 0, 0)
        i == start.i
        skip == start.skip
    IN  IF start.leave = "return"
          THEN FileDict(type, lines, skip, None, None, None, FALSE)
        ELSE IF i = Len(lines)
          THEN FileDict(type, lines, skip, None, None, None, FALSE)
        ELSE IF Truthy(Get(settings, "blockCommentStartPattern"))
          THEN BlockScan(type, lines, skip, i, i, None, FALSE)
        ELSE LineScan(type, lines, skip, i, i, None, FALSE)

\* ------------------------------------------------------------------------
\* Paths
\* ------------------------------------------------------------------------

\* fnmatch of a name against a pattern "*"+ext: the name ends with ext
fnmatch(name, pattern) ==
    LET ext == Tail(pattern) IN
    /\ Head(pattern) = "*"
    /\ Len(name) >= Len(ext)
    /\ SubSeq(name, Len(name) - Len(ext) + 1, Len(name)) = ext

\* os.path.splitext(file)[1]: from the last dot on, "" when there is no dot
\* or only dots precede it
splitext(name) ==
    LET dots == {k \in 1..Len(name) : name[k] = "."} IN
    IF dots = {} THEN <<>>
    ELSE LET dotIndex == CHOOSE k \in dots : \A m \in dots : m <= k IN
         IF \E k \in 1..(dotIndex - 1) : name[k] # "."
         THEN SubSeq(name, dotIndex, Len(name))
         ELSE <<>>

\* os.path.join(start_dir, name) for the directory "."
join(name) == <<".", "/">> \o name

RECURSIVE filter(_, _, _)
\* fnmatch.filter(files, pattern), as the indices k >= from of the matches
filter(files, pattern, from) ==
    IF from > Len(files) THEN <<>>
    ELSE (IF fnmatch(files[from], pattern) THEN <<from>> ELSE <<>>)
         \o filter(files, pattern, from + 1)

RECURSIVE get_paths(_, _)
\* the files get_paths yields, as indices into the listing of the directory:
\* names += fnmatch.filter(files, pattern) for every pattern
get_paths(pats, files) ==
    IF pats = <<>> THEN <<>>
    ELSE filter(files, Head(pats), 1) \o get_paths(Tail(pats), files)

\* exc in file
Contains(exc, file) ==
    \E p \in 1..(Len(file) + 1) : p + Len(exc) - 1 <= Len(file) /\ HasAt(file, p, exc)

\* ------------------------------------------------------------------------
\* read_template: the template lines with all the variables replaced
\* ------------------------------------------------------------------------

\* a template line is a sequence of literal pieces and $variables
lit(chars) == [lit |-> chars]

var(name) == [var |-> name]

list(elems) == [list |-> elems]

\* the settings dictionary main() builds from the arguments
SettingsOf(arguments) ==
    LET given == {k \in {"years", "owner", "projectname", "projecturl"} :
                     arguments[k] # NoneType}
        keys == given \cup (IF arguments.includefile THEN {"includefile"} ELSE {})
    IN  [k \in keys |-> IF k = "includefile" THEN str(<<"T", "r", "u", "e">>)
                        ELSE arguments[k].list[1]]

\* dict after dict["file_name"] = fileName if dict["includefile"] else "This file"
WithFileName(dict, fileName) ==
    [k \in DOMAIN dict \cup {"file_name"} |->
        IF k = "file_name"
        THEN IF "includefile" \in DOMAIN dict THEN str(fileName)
             ELSE str(<<"T", "h", "i", "s", " ", "f", "i", "l", "e">>)
        ELSE dict[k]]

RECURSIVE substitute(_, _)
\* Template(line).substitute(dict)
substitute(line, dict) ==
    IF line = <<>> THEN <<>>
    ELSE (IF "var" \in DOMAIN Head(line) THEN dict[Head(line).var].str
          ELSE Head(line).lit)
         \o substitute(Tail(line), dict)

\* substitute raises KeyError: a variable cannot be replaced
read_template_raises(template, fileName, dict) ==
    \E k \in 1..Len(template) : \E m \in 1..Len(template[k]) :
        /\ "var" \in DOMAIN template[k][m]
        /\ template[k][m].var \notin DOMAIN WithFileName(dict, fileName)

read_template(template, fileName, dict) ==
    [k \in 1..Len(template) |-> substitute(template[k], WithFileName(dict, fileName))]

\* ------------------------------------------------------------------------
\* What main() writes into a file
\* ------------------------------------------------------------------------

\* ReplaceCondition with a slip: haveLicense is not asked for
ReplaceConditionAnyComment(dict) ==
    dict.headStart # None /\ dict.headEnd # None

\* if headStart is not None and headEnd is not None and haveLicense
ReplaceCondition(dict) ==
    dict.headStart # None /\ dict.headEnd # None /\ dict.haveLicense

\* ReplaceWrites with a slip: the rest of the lines starts at headEnd
ReplaceWritesFromHeadEnd(dict, templateLines) ==
    Slice(dict.lines, 0, dict.headStart)
    \o for_type(templateLines, dict.type)
    \o SliceFrom(dict.lines, dict.headEnd)

\* "Replacing header in file": the three writelines calls
ReplaceWrites(dict, templateLines) ==
    Slice(dict.lines, 0, dict.headStart)
    \o for_type(templateLines, dict.type)
    \o SliceFrom(dict.lines, dict.headEnd + 1)

\* AddWrites with a slip: the header goes before the lines to skip
AddWritesAtTop(dict, templateLines) ==
    for_type(templateLines, dict.type) \o dict.lines

\* "Adding header to file": the three writelines calls
AddWrites(dict, templateLines) ==
    Slice(dict.lines, 0, dict.skip)
    \o for_type(templateLines, dict.type)
    \o SliceFrom(dict.lines, dict.skip)

\* "Updating years in file": writelines(lines[0:yearsLine]); the following
\* fw.write(yearsPattern.sub(arguments.years, ...)) raises TypeError, because
\* arguments.years is the one-element list argparse builds for nargs=1
YearsWrites(dict) == Slice(dict.lines, 0, dict.yearsLine)

\* which way the template is obtained for a file:
\* "read" (read_template is called), "error" (cannot proceed), "none"
TemplateChoice(arguments, tmpls, isfile) ==
    IF arguments.tmpl # NoneType
    THEN IF Len(tmpls) = 1 THEN "read"
         ELSE IF Len(tmpls) = 0
              THEN (IF isfile THEN "read" ELSE "error")
              ELSE "error"
    ELSE IF arguments.years = NoneType THEN "error" ELSE "none"

\* ------------------------------------------------------------------------
\* Inputs: lines, files, templates and command lines
\* ------------------------------------------------------------------------

\* "#!/usr/bin/env python"
LineShebang ==
    <<"#", "!", "/", "u", "s", "r", "/", "b", "i", "n", "/", "e", "n", "v", " ", "p", "y", "t", "h", "o", "n", "\n">>

\* "# Copyright 2015 Foo"
LineCopyright2015 ==
    <<"#", " ", "C", "o", "p", "y", "r", "i", "g", "h", "t", " ", "2", "0", "1", "5", " ", "F", "o", "o", "\n">>

\* "# license: MIT"
LineLicenseMIT ==
    <<"#", " ", "l", "i", "c", "e", "n", "s", "e", ":", " ", "M", "I", "T", "\n">>

\* "print('hi')"
LinePrint ==
    <<"p", "r", "i", "n", "t", "(", "'", "h", "i", "'", ")", "\n">>

\* an empty line
LineBlank ==
    <<"\n">>

LineCoding ==
    <<"#", " ", "-", "*", "-", " ", "c", "o", "d", "i", "n", "g", ":", " ", "u", "t", "f", "-", "8", " ", "-", "*", "-", "\n">>

LineCopyrightRange ==
    <<"#", " ", "C", "o", "p", "y", "r", "i", "g", "h", "t", " ", "(", "c", ")", " ", "2", "0", "1", "5", "-", "2", "0", "1", "6", " ", "F", "o", "o", "\n">>

LineBlockStart ==
    <<"/", "*", "\n">>

LineBlockLicense ==
    <<" ", "*", " ", "L", "i", "c", "e", "n", "s", "e", ":", " ", "M", "I", "T", "\n">>

LineBlockYears ==
    <<" ", "*", " ", "C", "o", "p", "y", "r", "i", "g", "h", "t", " ", "2", "0", "1", "5", "-", "2", "0", "1", "6", " ", "F", "o", "o", "\n">>

LineBlockEnd ==
    <<" ", "*", "/", "\n">>

LineBlockOneLine ==
    <<"/", "*", " ", "L", "i", "c", "e", "n", "s", "e", ":", " ", "M", "I", "T", " ", "*", "/", "\n">>

LineCode ==
    <<"i", "n", "t", " ", "x", ";", "\n">>

LineSlashLicense ==
    <<"/", "/", " ", "l", "i", "c", "e", "n", "s", "e", "\n">>

LineSlashYears ==
    <<"/", "/", " ", "C", "o", "p", "y", "r", "i", "g", "h", "t", " ", "2", "0", "1", "5", "-", "2", "0", "1", "6", " ", "F", "o", "o", "\n">>

LineQuoteLicense ==
    <<"'", " ", "l", "i", "c", "e", "n", "s", "e", "\n">>

LineDim ==
    <<"D", "i", "m", " ", "x", "\n">>

LineDashLicense ==
    <<"-", "-", " ", "l", "i", "c", "e", "n", "s", "e", "\n">>

LineSelect ==
    <<"s", "e", "l", "e", "c", "t", " ", "1", ";", "\n">>

LineXmlDecl ==
    <<"<", "?", "x", "m", "l", " ", "v", "e", "r", "s", "i", "o", "n", "=", "\"", "1", ".", "0", "\"", "?", ">", "\n">>

LineXmlStart ==
    <<"<", "!", "-", "-", "\n">>

LineXmlLicense ==
    <<"l", "i", "c", "e", "n", "s", "e", "\n">>

LineXmlEnd ==
    <<"-", "-", ">", "\n">>

LineXmlTag ==
    <<"<", "a", "/", ">", "\n">>

LinePercentLicense ==
    <<"%", "%", " ", "l", "i", "c", "e", "n", "s", "e", "\n">>

LineModule ==
    <<"-", "m", "o", "d", "u", "l", "e", "(", "x", ")", ".", "\n">>

LineBegin ==
    <<"=", "b", "e", "g", "i", "n", "\n">>

LineEnd ==
    <<"=", "e", "n", "d", "\n">>

\* the lines the files of a type are made of
Alphabet(type) ==
    CASE type = "python" ->
           {LineShebang, LineLicenseMIT, LinePrint, LineBlank, LineCoding,
            LineCopyrightRange}
      [] type = "script" ->
           {LineShebang, LineLicenseMIT, LinePrint, LineBlank, LineCopyrightRange}
      [] type = "java" ->
           {LineBlockStart, LineBlockLicense, LineBlockYears, LineBlockEnd,
            LineBlockOneLine, LineCode}
      [] type \in {"javascript", "c"} -> {LineBlockOneLine, LineCode}
      [] type = "csharp" -> {LineSlashLicense, LineSlashYears, LineCode, LineBlank}
      [] type = "vb" -> {LineQuoteLicense, LineDim, LineBlank}
      [] type = "sql" -> {LineDashLicense, LineSelect, LineBlank}
      [] type = "xml" -> {LineXmlDecl, LineXmlStart, LineXmlLicense, LineXmlEnd, LineXmlTag}
      [] type = "erlang" -> {LinePercentLicense, LineModule}
      [] type = "ruby" -> {LineShebang, LineBegin, LineEnd}

\* the longest file drawn from an alphabet
MaxLines == 3

\* the four lines of the scenario file
ScenarioLines == <<LineShebang, LineCopyright2015, LineLicenseMIT, LinePrint>>

\* the contents of the files of a type
Contents(type) ==
    UNION {[1..n -> Alphabet(type)] : n \in 0..MaxLines}
    \cup (IF type = "python" THEN {ScenarioLines} ELSE {})

\* a file name of each type: "a" and the last extension of the type
NameOf(type) ==
    LET exts == typeSettings[type].extensions IN <<"a">> \o exts[Len(exts)]

\* a name get_paths does not yield
NameUnregistered ==
    <<"a", ".", "x", "y", "z">>

\* a name with the extension of python in upper case
NameUpperCase ==
    <<"a", ".", "P", "Y">>

\* a name splitext finds no extension in
NameDotOnly ==
    <<".", "p", "y">>

TypeSet == {Types[k] : k \in 1..Len(Types)}

\* the template of the scenario
TemplateBar ==
    << <<lit(<<"C", "o", "p", "y", "r", "i", "g", "h", "t", " ", "2", "0", "2", "4", " ", "B", "a", "r", "\n">>)>> >>

TemplateMIT ==
    << <<lit(<<"M", "I", "T", " ", "L", "i", "c", "e", "n", "s", "e", "\n">>)>>,
       <<lit(<<"C", "o", "p", "y", "r", "i", "g", "h", "t", " ", "(", "c", ")", " ">>), var("years"), lit(<<" ">>), var("owner"), lit(<<"\n">>)>> >>

TemplateFile ==
    << <<var("file_name"), lit(<<":", " ", "M", "I", "T", " ", "l", "i", "c", "e", "n", "s", "e", "\n">>)>> >>

Templates == {TemplateBar, TemplateMIT, TemplateFile}

\* the value of --years
Years ==
    <<"2", "0", "2", "0", "-", "2", "0", "2", "4">>

\* the value of --owner
Owner ==
    <<"B", "a", "r">>

\* a value of --exclude
ExcludeB ==
    <<"b", ".">>

\* the longest directory listing of a whole run
MaxFiles == 2

\* the number of times the program is run on the directory
MaxRuns == 2

\* command lines for one file: the template "mit" with or without the file
\* name, or the years only
EngineArguments ==
    [tmpl : {list(<<str(<<"m", "i", "t">>)>>)}, years : {list(<<str(Years)>>)},
     owner : {list(<<str(Owner)>>)},
     projectname : {NoneType}, projecturl : {NoneType},
     includefile : BOOLEAN, exclude : {<<>>}]
    \cup
    [tmpl : {NoneType}, years : {list(<<str(Years)>>)}, owner : {NoneType},
     projectname : {NoneType}, projecturl : {NoneType},
     includefile : {TRUE}, exclude : {<<>>}]

\* every command line
RunArguments ==
    [tmpl : {NoneType, list(<<str(<<"m", "i", "t">>)>>)},
     years : {NoneType, list(<<str(Years)>>)},
     owner : {NoneType, list(<<str(Owner)>>)},
     projectname : {NoneType}, projecturl : {NoneType},
     includefile : {TRUE}, exclude : {<<>>, <<ExcludeB>>}]

\* the files a directory of a whole run is made of
SampleFiles ==
    { [name |-> NameOf("python"), lines |-> ScenarioLines],
      [name |-> <<"b">> \o typeSettings["java"].extensions[1],
       lines |-> <<LineBlockStart, LineBlockLicense, LineBlockEnd, LineCode>>],
      [name |-> NameOf("ruby"), lines |-> <<LineBegin, LineEnd>>],
      [name |-> NameUnregistered, lines |-> <<LineLicenseMIT, LineCode>>],
      [name |-> NameUpperCase, lines |-> <<LineLicenseMIT, LinePrint>>],
      [name |-> NameDotOnly, lines |-> <<LineLicenseMIT, LinePrint>>] }

\* the listings os.walk can give of a directory of at most MaxFiles sample files
Listings ==
    {l \in UNION {[1..n -> SampleFiles] : n \in 1..MaxFiles} :
        \A a, b \in 1..Len(l) : a # b => l[a].name # l[b].name}

\* ------------------------------------------------------------------------
\* main()
\* ------------------------------------------------------------------------

VARIABLES
    arguments,      \* the parsed command line
    tmpls,          \* the built-in templates whose name contains arguments.tmpl
    isfile,         \* os.path.isfile(opt_tmpl)
    template,       \* the lines of the template file
    files,          \* the names os.walk lists in the directory
    disk,           \* disk[k]: the contents of files[k], as readlines gives them
    paths,          \* what get_paths has still to yield, as indices into files
    dict,           \* what read_file returned for the file being processed
    templateLines,  \* None or the list of the lines of the loaded template
    error,          \* the error flag of main()
    pc,             \* "loop", "file" (after read_file), "done", "raised"
    raised,         \* the exception that ended the run
    runs,           \* the number of runs started
    written,        \* the files opened for writing in this run
    log             \* the files processed so far and what was written

vars ==
    <<arguments, tmpls, isfile, template, files, disk, paths, dict,
      templateLines, error, pc, raised, runs, written, log>>

inputs == <<arguments, tmpls, isfile, template, files>>

Start ==
    /\ paths = get_paths(patterns, files)
    /\ dict = NoneType
    /\ templateLines = NoneType
    /\ error = FALSE
    /\ pc = "loop"
    /\ raised = "None"
    /\ runs = 1
    /\ written = {}
    /\ log = <<>>

\* one file of any type and contents, processed with years only, with a
\* template that names the file, or with one that does not
InitEngine ==
    /\ arguments \in EngineArguments
    /\ tmpls = <<"mit">>
    /\ isfile = FALSE
    /\ template \in (IF arguments.tmpl = NoneType THEN {TemplateMIT}
                     ELSE IF arguments.includefile THEN {TemplateFile}
                     ELSE {TemplateBar, TemplateMIT})
    /\ \E type \in TypeSet : \E lines \in Contents(type) :
           /\ files = <<NameOf(type)>>
           /\ disk = <<lines>>
    /\ Start

\* one file of the scenario or of at most one line, of any type, processed
\* with any template
InitTemplate ==
    /\ arguments \in {a \in EngineArguments : a.tmpl # NoneType}
    /\ tmpls = <<"mit">>
    /\ isfile = FALSE
    /\ template \in Templates
    /\ \E type \in TypeSet : \E lines \in Contents(type) :
           /\ Len(lines) <= 1 \/ lines = ScenarioLines
           /\ files = <<NameOf(type)>>
           /\ disk = <<lines>>
    /\ Start

\* a directory of sample files, processed with any command line
InitRun ==
    /\ arguments \in RunArguments
    /\ tmpls \in (IF arguments.tmpl = NoneType THEN {<<>>}
                  ELSE {<<>>, <<"mit">>, <<"mit", "mit-x">>})
    /\ isfile \in (IF tmpls = <<>> /\ arguments.tmpl # NoneType THEN BOOLEAN ELSE {FALSE})
    /\ template = TemplateMIT
    /\ \E l \in Listings :
           /\ files = [k \in 1..Len(l) |-> l[k].name]
           /\ disk = [k \in 1..Len(l) |-> l[k].lines]
    /\ Start

Init == InitEngine \/ InitTemplate \/ InitRun

\* ---- one iteration of the loop over get_paths --------------------------

\* the file get_paths yields next
file == Head(paths)

fileName == files[file]

\* for exc in exclude: if exc in file: passed = False
passed ==
    \A k \in 1..Len(arguments.exclude) : ~Contains(arguments.exclude[k], join(fileName))

\* continue: the file matches an exclude pattern
SkipExcluded ==
    /\ pc = "loop"
    /\ paths # <<>>
    /\ ~passed
    /\ paths' = Tail(paths)
    /\ UNCHANGED <<inputs, disk, dict, templateLines, error, pc, raised, runs, written, log>>

\* read_file returns None, "File not supported": continue
SkipUnsupported ==
    /\ pc = "loop"
    /\ paths # <<>>
    /\ passed
    /\ ext2type(splitext(fileName)) = NoType
    /\ paths' = Tail(paths)
    /\ UNCHANGED <<inputs, disk, dict, templateLines, error, pc, raised, runs, written, log>>

\* read_file raises AttributeError
ReadFileRaises ==
    /\ pc = "loop"
    /\ paths # <<>>
    /\ passed
    /\ LET type == ext2type(splitext(fileName)) IN
           /\ type # NoType
           /\ read_file_raises(type, disk[file])
    /\ pc' = "raised"
    /\ raised' = "AttributeError"
    /\ UNCHANGED <<inputs, disk, paths, dict, templateLines, error, runs, written, log>>

\* dict = read_file(file)
ReadFile ==
    /\ pc = "loop"
    /\ paths # <<>>
    /\ passed
    /\ LET type == ext2type(splitext(fileName)) IN
           /\ type # NoType
           /\ ~read_file_raises(type, disk[file])
           /\ dict' = read_file(type, disk[file])
    /\ pc' = "file"
    /\ UNCHANGED <<inputs, disk, paths, templateLines, error, raised, runs, written, log>>

choice == TemplateChoice(arguments, tmpls, isfile)

\* templateLines after the template was obtained for this file
newTemplateLines ==
    IF choice = "read"
    THEN list(read_template(template, fileName, SettingsOf(arguments)))
    ELSE templateLines

\* if templateLines:
HaveTemplate(tl) == tl # NoneType /\ tl.list # <<>>

\* the template was obtained without error
Loaded ==
    /\ pc = "file"
    /\ choice # "error"
    /\ choice = "read" => ~read_template_raises(template, fileName, SettingsOf(arguments))

Entry(mode, tl, writes) ==
    [ run |-> runs, file |-> file, mode |-> mode, dict |-> dict,
      templateLines |-> tl, writes |-> writes ]

\* the file is opened for writing and the strings are written
Write(mode, tl, writes) ==
    /\ disk' = [disk EXCEPT ![file] = readlines(Concat(writes))]
    /\ written' = written \cup {file}
    /\ log' = Append(log, Entry(mode, tl, writes))
    /\ templateLines' = tl

\* on to the next file
Continue ==
    /\ paths' = Tail(paths)
    /\ dict' = NoneType
    /\ pc' = "loop"
    /\ UNCHANGED <<inputs, error, raised, runs>>

\* ReportError with a slip: the template is looked at after the file was
\* opened for writing, which empties it
ReportErrorAfterOpen ==
    /\ pc = "file"
    /\ choice = "error"
    /\ disk' = [disk EXCEPT ![file] = <<>>]
    /\ written' = written \cup {file}
    /\ error' = TRUE
    /\ pc' = "done"
    /\ UNCHANGED <<inputs, paths, dict, templateLines, raised, runs, log>>

\* error = True; break
ReportError ==
    /\ pc = "file"
    /\ choice = "error"
    /\ error' = TRUE
    /\ pc' = "done"
    /\ UNCHANGED <<inputs, disk, paths, dict, templateLines, raised, runs, written, log>>

\* read_template raises KeyError
ReadTemplateRaises ==
    /\ pc = "file"
    /\ choice = "read"
    /\ read_template_raises(template, fileName, SettingsOf(arguments))
    /\ pc' = "raised"
    /\ raised' = "KeyError"
    /\ UNCHANGED <<inputs, disk, paths, dict, templateLines, error, runs, written, log>>

\* "Replacing header in file"
ReplaceHeader ==
    /\ Loaded
    /\ LET tl == newTemplateLines IN
           /\ HaveTemplate(tl)
           /\ ReplaceCondition(dict)
           /\ Write("Replace", tl, ReplaceWrites(dict, tl.list))
    /\ Continue

\* "Adding header to file"
AddHeader ==
    /\ Loaded
    /\ LET tl == newTemplateLines IN
           /\ HaveTemplate(tl)
           /\ ~ReplaceCondition(dict)
           /\ Write("Insert", tl, AddWrites(dict, tl.list))
    /\ Continue

\* "Updating years in file"; the write of the years line raises TypeError
UpdateYears ==
    /\ Loaded
    /\ LET tl == newTemplateLines IN
           /\ ~HaveTemplate(tl)
           /\ dict.yearsLine # None
           /\ Write("YearUpdate", tl, YearsWrites(dict))
    /\ pc' = "raised"
    /\ raised' = "TypeError"
    /\ UNCHANGED <<inputs, paths, dict, error, runs>>

\* no template lines and no line with the years: nothing is written
NoYearsLine ==
    /\ Loaded
    /\ LET tl == newTemplateLines IN
           /\ ~HaveTemplate(tl)
           /\ dict.yearsLine = None
           /\ log' = Append(log, Entry("None", tl, <<>>))
           /\ templateLines' = tl
    /\ Continue
    /\ UNCHANGED <<disk, written>>

\* get_paths is exhausted: main returns
Finish ==
    /\ pc = "loop"
    /\ paths = <<>>
    /\ pc' = "done"
    /\ UNCHANGED <<inputs, disk, paths, dict, templateLines, error, raised, runs, written, log>>

\* the program is run again with the same command line on the same directory
RunAgain ==
    /\ pc \in {"done", "raised"}
    /\ runs < MaxRuns
    /\ runs' = runs + 1
    /\ paths' = get_paths(patterns, files)
    /\ dict' = NoneType
    /\ templateLines' = NoneType
    /\ error' = FALSE
    /\ pc' = "loop"
    /\ raised' = "None"
    /\ written' = {}
    /\ UNCHANGED <<inputs, disk, log>>

Next ==
    \/ SkipExcluded
    \/ SkipUnsupported
    \/ ReadFileRaises
    \/ ReadFile
    \/ ReportError
    \/ ReadTemplateRaises
    \/ ReplaceHeader
    \/ AddHeader
    \/ UpdateYears
    \/ NoYearsLine
    \/ Finish
    \/ RunAgain

Spec == Init /\ [][Next]_vars


\* ------------------------------------------------------------------------
\* Properties
\* ------------------------------------------------------------------------

\* the entries of the log that wrote a file
Entries == 1..Len(log)

\* the lines of the file after the k-th entry of the log was written
After(k) == readlines(Concat(log[k].writes))

\* the formatted header of the k-th entry
Header(k) == for_type(log[k].templateLines.list, log[k].dict.type)

\* the k-th entry found a bounded header recognised as a license
Bounded(k) ==
    /\ log[k].dict.headStart # None
    /\ log[k].dict.headEnd # None
    /\ log[k].dict.haveLicense

\* line is kept as the first line of a file of the type
KeepFirstMatches(type, line) ==
    LET keepFirst == Get(typeSettings[type], "keepFirst") IN
    IsRe(keepFirst) /\ findall(keepFirst, line)

\* line i (0-based) of the lines counts as preserved
Preserved(type, lines, i) ==
    IF i = 0 THEN KeepFirstMatches(type, lines[1])
    ELSE LET keepMore == Get(typeSettings[type], "keepMore") IN
         IsRe(keepMore) /\ findall(keepMore, lines[i + 1])

\* line i (0-based) is the first line that is neither preserved nor blank
FirstSignificant(type, lines, i) ==
    /\ i < Len(lines)
    /\ ~Preserved(type, lines, i) /\ ~emptyPattern(lines[i + 1])
    /\ \A k \in 0..(i - 1) : Preserved(type, lines, k) \/ emptyPattern(lines[k + 1])

\* the first significant line opens a block comment that no line closes; a
\* line is recognised as the end when it matches the end pattern and does
\* not contain "license"
UnterminatedBlock(type, lines) ==
    LET blockCommentStartPattern == Get(typeSettings[type], "blockCommentStartPattern")
        blockCommentEndPattern == Get(typeSettings[type], "blockCommentEndPattern")
    IN  /\ IsRe(blockCommentStartPattern)
        /\ \E i \in 0..(Len(lines) - 1) :
               /\ FirstSignificant(type, lines, i)
               /\ findall(blockCommentStartPattern, lines[i + 1])
               /\ \A j \in i..(Len(lines) - 1) :
                      \/ ~findall(blockCommentEndPattern, lines[j + 1])
                      \/ licensePattern(lines[j + 1])

\* a template line contains "license" or copyright years
LicenseBearing(tl) ==
    \E k \in 1..Len(tl) : licensePattern(tl[k]) \/ yearsPattern(tl[k])

\* C1: in YearUpdate mode the new contents have as many lines as the old
\* ones, and every line other than yearsLine is unchanged and in its place.
C1_YearUpdateKeepsOtherLines ==
    \A k \in Entries :
        log[k].mode = "YearUpdate" =>
            LET lines == log[k].dict.lines
                out == After(k)
            IN  /\ Len(out) = Len(lines)
                /\ \A i \in 1..Len(lines) :
                       i # log[k].dict.yearsLine + 1 => out[i] = lines[i]

\* C2: when a file is rewritten in Replace mode and then processed again
\* with the same template, the second rewrite leaves the same contents.
C2_ReplaceIdempotent ==
    \A k, m \in Entries :
        ( /\ k < m
          /\ log[k].file = log[m].file
          /\ \A n \in (k + 1)..(m - 1) : log[n].file # log[k].file
          /\ log[k].mode = "Replace"
          /\ log[m].templateLines = log[k].templateLines )
        => After(m) = After(k)

\* C3: after the formatted header of a license-bearing template is put into
\* a file, read_file on the new contents reports haveLicense and headStart
\* and headEnd are the first and the last line of the header.
C3_FormatThenDetect ==
    \A k \in Entries :
        ( /\ log[k].mode \in {"Replace", "Insert"}
          /\ LicenseBearing(log[k].templateLines.list) )
        => LET d == log[k].dict
               first == IF log[k].mode = "Replace" THEN d.headStart ELSE d.skip
               count == Len(readlines(Concat(Header(k))))
               again == read_file(d.type, After(k))
           IN  /\ again.haveLicense
               /\ again.headStart = first
               /\ again.headEnd = first + count - 1

\* C4: when line 0 of a file matches keepFirst of its type, line 0 of what
\* Replace, Insert and YearUpdate leave in the file is that same line.
C4_FirstLineKept ==
    \A k \in Entries :
        ( /\ log[k].mode \in {"Replace", "Insert", "YearUpdate"}
          /\ log[k].dict.lines # <<>>
          /\ KeepFirstMatches(log[k].dict.type, log[k].dict.lines[1]) )
        => /\ After(k) # <<>>
           /\ After(k)[1] = log[k].dict.lines[1]

\* a shebang line was kept by a Replace
C4_Witness ==
    \E k \in Entries :
        /\ log[k].mode = "Replace"
        /\ log[k].dict.lines # <<>>
        /\ KeepFirstMatches(log[k].dict.type, log[k].dict.lines[1])
        /\ After(k)[1] = log[k].dict.lines[1]

\* C5: when the first significant line opens a block comment that no line
\* closes, read_file returns headStart, headEnd and yearsLine unset, and
\* with a template the header is added and every line of the file is kept.
C5_UnterminatedBlock ==
    \A k \in Entries :
        UnterminatedBlock(log[k].dict.type, log[k].dict.lines) =>
            LET d == log[k].dict
                out == After(k)
                added == Len(out) - Len(d.lines)
            IN  /\ d.headStart = None /\ d.headEnd = None /\ d.yearsLine = None
                /\ HaveTemplate(log[k].templateLines) =>
                       /\ log[k].mode = "Insert"
                       /\ added = Len(readlines(Concat(Header(k))))
                       /\ \E at \in 0..Len(d.lines) :
                              /\ \A i \in 1..at : out[i] = d.lines[i]
                              /\ \A i \in (at + 1)..Len(d.lines) : out[i + added] = d.lines[i]

\* a header was added to a file with an unterminated block comment that
\* contains "license", followed by more lines
C5_Witness ==
    \E k \in Entries :
        /\ UnterminatedBlock(log[k].dict.type, log[k].dict.lines)
        /\ log[k].dict.haveLicense
        /\ Len(log[k].dict.lines) >= 2
        /\ log[k].mode = "Insert"

\* C6: Replace is the mode exactly when there is a template and read_file
\* returned headStart and headEnd with haveLicense; what is written is
\* lines[0..headStart-1], the formatted header, lines[headEnd+1..].
C6_Replace ==
    \A k \in Entries :
        /\ log[k].mode = "Replace" <=> (HaveTemplate(log[k].templateLines) /\ Bounded(k))
        /\ log[k].mode = "Replace" =>
               LET d == log[k].dict
                   w == log[k].writes
                   h == Header(k)
               IN  /\ Len(w) = d.headStart + Len(h) + (Len(d.lines) - d.headEnd - 1)
                   /\ \A i \in 1..d.headStart : w[i] = d.lines[i]
                   /\ \A i \in 1..Len(h) : w[d.headStart + i] = h[i]
                   /\ \A i \in (d.headEnd + 2)..Len(d.lines) :
                          w[d.headStart + Len(h) + i - d.headEnd - 1] = d.lines[i]

\* a header with lines before it and lines after it was replaced
C6_Witness ==
    \E k \in Entries :
        /\ log[k].mode = "Replace"
        /\ log[k].dict.headStart > 0
        /\ log[k].dict.headEnd > log[k].dict.headStart
        /\ log[k].dict.headEnd < Len(log[k].dict.lines) - 1

\* C7: Insert is the mode exactly when there is a template and read_file
\* did not return a bounded header with haveLicense; what is written is the
\* first skip lines, the formatted header, all the remaining lines.
C7_Insert ==
    \A k \in Entries :
        /\ log[k].mode = "Insert" <=> (HaveTemplate(log[k].templateLines) /\ ~Bounded(k))
        /\ log[k].mode = "Insert" =>
               LET d == log[k].dict
                   w == log[k].writes
                   h == Header(k)
               IN  /\ Len(w) = Len(d.lines) + Len(h)
                   /\ \A i \in 1..d.skip : w[i] = d.lines[i]
                   /\ \A i \in 1..Len(h) : w[d.skip + i] = h[i]
                   /\ \A i \in (d.skip + 1)..Len(d.lines) : w[Len(h) + i] = d.lines[i]

\* a header was added after a kept line to a file whose comment block is
\* not recognised as a license
C7_Witness ==
    \E k \in Entries :
        /\ log[k].mode = "Insert"
        /\ log[k].dict.skip > 0
        /\ log[k].dict.headStart # None
        /\ ~log[k].dict.haveLicense

\* C8: when a run reports a template error (several built-in templates
\* match, none matches and the name is no file, neither template nor
\* years) or a template variable has no value, the run has written no file.
C8_ErrorsBeforeAnyWrite ==
    (error \/ raised = "KeyError") => written = {}

\* an error was reported in a directory of two files that get_paths yields
C8_Witness ==
    /\ error
    /\ Len(get_paths(patterns, files)) >= 2
    /\ written = {}

\* C9: for the four scenario lines and the python type read_file returns
\* skip=1, headStart=1, headEnd=2, yearsLine=1, haveLicense=true.
C9_ScenarioDetect ==
    (pc = "file" /\ dict.type = "python" /\ dict.lines = ScenarioLines) =>
        /\ dict.skip = 1
        /\ dict.headStart = 1
        /\ dict.headEnd = 2
        /\ dict.yearsLine = 1
        /\ dict.haveLicense

\* "#" and "# Copyright 2024 Bar", the header lines of the scenario
LineHash ==
    <<"#", "\n">>

LineHashBar ==
    <<"#", " ", "C", "o", "p", "y", "r", "i", "g", "h", "t", " ", "2", "0", "2", "4", " ", "B", "a", "r", "\n">>

LineBar ==
    <<"C", "o", "p", "y", "r", "i", "g", "h", "t", " ", "2", "0", "2", "4", " ", "B", "a", "r", "\n">>

\* C10: for the scenario file and the template line "Copyright 2024 Bar"
\* the rewrite is a Replace that leaves five lines: the shebang, "#",
\* "# Copyright 2024 Bar", "#", "print('hi')".
C10_ScenarioReplace ==
    \A k \in Entries :
        ( /\ log[k].dict.type = "python"
          /\ log[k].dict.lines = ScenarioLines
          /\ log[k].templateLines = list(<<LineBar>>) )
        => /\ log[k].mode = "Replace"
           /\ After(k) = <<LineShebang, LineHash, LineHashBar, LineHash, LinePrint>>

\* C11: every dictionary read_file returns has headStart and headEnd both
\* unset or both set with skip <= headStart <= headEnd <= index of the last
\* line, and yearsLine, when set, lies between headStart and headEnd.
C11_WellFormed ==
    pc = "file" =>
        /\ (dict.headStart = None) <=> (dict.headEnd = None)
        /\ dict.headStart # None =>
               /\ dict.skip <= dict.headStart
               /\ dict.headStart <= dict.headEnd
               /\ dict.headEnd <= Len(dict.lines) - 1
        /\ dict.yearsLine # None =>
               /\ dict.headStart # None
               /\ dict.headStart <= dict.yearsLine
               /\ dict.yearsLine <= dict.headEnd

\* read_file found a header after a kept line, with the line of the years
\* inside it
C11_Witness ==
    /\ pc = "file"
    /\ dict.skip > 0
    /\ dict.headStart # None
    /\ dict.yearsLine # None
    /\ dict.headStart < dict.yearsLine
    /\ dict.yearsLine < dict.headEnd

\* the k-th type of the table lists the extension
Listed(k, ext) ==
    \E e \in 1..Len(typeSettings[Types[k]].extensions) :
        typeSettings[Types[k]].extensions[e] = ext

\* the extensions the table lists
Registered ==
    UNION {{typeSettings[t].extensions[e] : e \in 1..Len(typeSettings[t].extensions)} :
              t \in TypeSet}

\* the extension in upper case
UpperOf(ext) ==
    [i \in 1..Len(ext) |->
        IF \E k \in 1..26 : LowerCase[k] = ext[i]
        THEN UpperCase[CHOOSE k \in 1..26 : LowerCase[k] = ext[i]]
        ELSE ext[i]]

\* a registered extension resolves to the last type that lists it, ".py"
\* is listed twice and is python, and an extension in another case or not
\* in the table resolves to nothing
LastRegistrationWins ==
    /\ \A ext \in Registered :
           \E k \in 1..Len(Types) :
               /\ Listed(k, ext)
               /\ ext2type(ext) = Types[k]
               /\ \A m \in (k + 1)..Len(Types) : ~Listed(m, ext)
    /\ \E k, m \in 1..Len(Types) :
           /\ Types[k] = "script" /\ Types[m] = "python" /\ k < m
           /\ Listed(k, splitext(NameOf("python")))
           /\ Listed(m, splitext(NameOf("python")))
    /\ ext2type(splitext(NameOf("python"))) = "python"
    /\ \A ext \in Registered :
           UpperOf(ext) \notin Registered => ext2type(UpperOf(ext)) = NoType
    /\ ext2type(splitext(NameUpperCase)) = NoType
    /\ ext2type(splitext(NameUnregistered)) = NoType

\* the k-th file of the directory has no type
Unsupported(k) == ext2type(splitext(files[k])) = NoType

\* C12: an extension resolves to the last type that lists it (".py" to
\* python), an unregistered or differently-cased one to nothing, and a file
\* without a type is never written and no run raises on it.
C12_Resolution ==
    /\ LastRegistrationWins
    /\ \A k \in 1..Len(files) :
           Unsupported(k) =>
               /\ k \notin written
               /\ \A e \in Entries : log[e].file # k
               /\ ~(pc = "raised" /\ paths # <<>> /\ Head(paths) = k)

\* a run has ended that wrote a file and passed over the file ".py", which
\* get_paths yields and read_file does not support
C12_Witness ==
    /\ pc = "done"
    /\ ~error
    /\ written # {}
    /\ \E k \in 1..Len(files) :
           /\ files[k] = NameDotOnly
           /\ k \in {get_paths(patterns, files)[p] : p \in 1..Len(get_paths(patterns, files))}
           /\ k \notin written

\* the type has a line comment pattern and no block comment pattern
LineCommentOnly(type) ==
    /\ ~Truthy(Get(typeSettings[type], "blockCommentStartPattern"))
    /\ Truthy(Get(typeSettings[type], "lineCommentStartPattern"))

\* C13: for a type with line comments only, every line from headStart to
\* headEnd matches the line comment pattern and the line after headEnd, if
\* there is one, does not.
C13_LineHeaderEnd ==
    (pc = "file" /\ LineCommentOnly(dict.type) /\ dict.headStart # None) =>
        LET lineCommentStartPattern == Get(typeSettings[dict.type], "lineCommentStartPattern")
        IN  /\ \A i \in dict.headStart..dict.headEnd :
                   findall(lineCommentStartPattern, dict.lines[i + 1])
            /\ dict.headEnd + 1 < Len(dict.lines) =>
                   ~findall(lineCommentStartPattern, dict.lines[dict.headEnd + 2])

\* C14: for a type with block comments, headEnd is the first line at or
\* after headStart that matches the block comment end pattern, whatever
\* else the line contains.
C14_BlockHeaderEnd ==
    ( /\ pc = "file"
      /\ Truthy(Get(typeSettings[dict.type], "blockCommentStartPattern"))
      /\ dict.headStart # None ) =>
        LET blockCommentEndPattern == Get(typeSettings[dict.type], "blockCommentEndPattern")
        IN  /\ findall(blockCommentEndPattern, dict.lines[dict.headEnd + 1])
            /\ \A j \in dict.headStart..(dict.headEnd - 1) :
                   ~findall(blockCommentEndPattern, dict.lines[j + 1])

\* line i (0-based) is preserved and only preserved or blank lines precede it
LeadingPreserved(type, lines, i) ==
    /\ Preserved(type, lines, i)
    /\ \A k \in 0..(i - 1) : Preserved(type, lines, k) \/ emptyPattern(lines[k + 1])

\* C15: the lines before index skip are exactly the preserved lines at the
\* head of the file, also when blank lines lie between or before them.
C15_SkipIsIndex ==
    pc = "file" =>
        \A i \in 0..(Len(dict.lines) - 1) :
            (i < dict.skip) <=> LeadingPreserved(dict.type, dict.lines, i)

\* C16: read_file returns a dictionary for every file of every type of
\* the table; no run ends with the AttributeError of a pattern field that
\* is not a pattern.
C16_Total ==
    raised # "AttributeError"

====
